---- MODULE Spec2Model ----
(***************************************************************************)
(* Model of rosbag_to_dora: ros2bag_to_dora.py (bag locator, topic         *)
(* extractor, DoraBagOperator timed emitter, main simulation loop) and     *)
(* the locator it shares with ros2bag_read.py.                             *)
(*                                                                         *)
(* Time is counted in clock units; UnitsPerSecond units make one second,   *)
(* so "elapsed >= 1.0 / send_frequency" reads                              *)
(* elapsed * send_frequency >= UnitsPerSecond.                             *)
(* Python indices are 0-based, TLA+ sequences 1-based: the record at       *)
(* Python index i is element i + 1.                                        *)
(***************************************************************************)
EXTENDS Integers, Sequences, FiniteSets, TLC

VARIABLES
    fs,               \* the file system: path -> "none" | "file" | "dir"
    arg_path,         \* args.bag_path
    arg_frequency,    \* args.frequency
    pc,               \* position of the program
    bag_path,         \* parse_ros2_bag's bag_path after the locator
    warned,           \* the '.db3' warning was printed
    error,            \* the error line printed by parse_ros2_bag ("" = none)
    read,             \* the messages reader.messages() has yielded so far
    extracted_data,   \* parse_ros2_bag's local extracted_data
    result,           \* the value parse_ros2_bag returned
    all_data,         \* DoraBagOperator.all_data
    imu_index,        \* DoraBagOperator.imu_index
    odom_index,       \* DoraBagOperator.odom_index
    last_send_time,   \* DoraBagOperator.last_send_time
    send_frequency,   \* DoraBagOperator.send_frequency
    now,              \* the clock, time.time()
    sent,             \* the calls the sink (send_output) has received
    status,           \* what the last on_event call returned
    printed,          \* the line the last on_event call printed
    ev_type,          \* the type of the last event given to on_event
    passed,           \* the last on_event call passed the rate gate
    gated,            \* how many on_event calls passed the rate gate
    stop_seen         \* a STOP event has been given to on_event

vars == <<fs, arg_path, arg_frequency, pc, bag_path, warned, error, read,
          extracted_data, result, all_data, imu_index, odom_index,
          last_send_time, send_frequency, now, sent, status, printed,
          ev_type, passed, gated, stop_seen>>

locatorVars == <<bag_path, warned, error>>
operatorVars == <<all_data, imu_index, odom_index, last_send_time,
                  send_frequency, sent, status, printed, ev_type, passed,
                  gated, stop_seen>>
argVars == <<fs, arg_path, arg_frequency>>

----------------------------------------------------------------------------
(* Bounds *)

MaxMsgs == 3          \* messages a bag holds
MaxLen == 3           \* records per topic when the operator is driven by a host
UnitsPerSecond == 20  \* clock resolution
DefaultFrequency == 10

\* --frequency values; on_event divides by send_frequency, so the model
\* covers the positive ones
Frequencies == {5, DefaultFrequency}

Max(a, b) == IF a >= b THEN a ELSE b
MinFrequency == CHOOSE f \in Frequencies : \A g \in Frequencies : f <= g
\* how late a sleep may return, and the longest step of the clock
Jitters == {0, 1}
MaxStep == (UnitsPerSecond \div MinFrequency) + 2
\* the host stops delivering events at MaxTime
MaxTime == (MaxLen + 1) * (UnitsPerSecond \div MinFrequency)

----------------------------------------------------------------------------
(* Paths: a path is a sequence of names, a name is <<stem, extension>>;    *)
(* the empty sequence is the empty string ''.                              *)

BagName == <<"bag", "">>
DataName == <<"data", ".db3">>
MetaName == <<"metadata", ".yaml">>

PathBag == <<BagName>>
PathBagData == <<BagName, DataName>>
PathBagMeta == <<BagName, MetaName>>
PathBare == <<DataName>>
KnownPaths == {PathBag, PathBagData, PathBagMeta, PathBare}
ArgPaths == {PathBag, PathBagData, PathBare}

EndsWithDb3(p) == Len(p) > 0 /\ p[Len(p)][2] = ".db3"
dirname(p) == IF Len(p) = 0 THEN <<>> ELSE SubSeq(p, 1, Len(p) - 1)

exists(p) == p \in DOMAIN fs /\ fs[p] # "none"
isfile(p) == p \in DOMAIN fs /\ fs[p] = "file"
isdir(p) == p \in DOMAIN fs /\ fs[p] = "dir"
listdir(p) == {q \in DOMAIN fs : Len(q) = Len(p) + 1 /\ dirname(q) = p /\ fs[q] # "none"}

\* a file system is a tree: an entry exists only inside a directory
FileSystems ==
    {f \in [KnownPaths -> {"none", "file", "dir"}] :
        /\ f[PathBagMeta] # "dir"
        /\ f[PathBare] # "dir"
        /\ (f[PathBag] # "dir" => f[PathBagData] = "none" /\ f[PathBagMeta] = "none")}

----------------------------------------------------------------------------
(* Bag locator: parse_ros2_bag up to the reader-open step.  The outcome is *)
(* the resolved bag_path, whether the warning was printed, and the error   *)
(* line ("" when the locator falls through to the reader).                 *)

Outcome(path, w, e) == [bag_path |-> path, warned |-> w, error |-> e]

\* the check after the branches: the resolved bag_path must be a directory
CheckBagDir(o) ==
    IF o.error = "" /\ ~isdir(o.bag_path)
    THEN Outcome(o.bag_path, o.warned, "InvalidPath")
    ELSE o

Locate(p) ==
    IF ~exists(p) THEN Outcome(p, FALSE, "NotFound")
    ELSE CheckBagDir(
        IF isfile(p) /\ EndsWithDb3(p) THEN Outcome(dirname(p), TRUE, "")
        ELSE IF isdir(p) THEN
            IF {q \in listdir(p) : EndsWithDb3(q)} = {}
            THEN Outcome(p, FALSE, "NoDataFile")
            ELSE Outcome(p, FALSE, "")
        ELSE Outcome(p, FALSE, "InvalidPath"))

----------------------------------------------------------------------------
(* Topic extractor.  A stored message is (topic, timestamp, rawdata); the  *)
(* raw payload is a sequence of encoded values, and deserialize_cdr (an    *)
(* external library) decodes it or raises on a payload it cannot decode.   *)

ImuTopic == "/Imu"
OdomTopic == "/odom"
RecognizedTopics == {ImuTopic, OdomTopic}
Topics == RecognizedTopics \cup {"/scan"}
Timestamps == {1, 2}
GoodPayload == <<7, 8, 9>>
CorruptPayload == <<>>
Payloads == {GoodPayload, CorruptPayload}
\* connection.msgtype of a topic's connection
MsgType(topic) ==
    IF topic = ImuTopic THEN "sensor_msgs/msg/Imu"
    ELSE IF topic = OdomTopic THEN "nav_msgs/msg/Odometry"
    ELSE "sensor_msgs/msg/LaserScan"
\* the timestamp of a message on another topic is never read
Messages ==
    [topic : RecognizedTopics, timestamp : Timestamps, rawdata : Payloads]
    \cup [topic : Topics \ RecognizedTopics, timestamp : {1}, rawdata : Payloads]

EmptyData == [t \in RecognizedTopics |-> <<>>]

\* deserialize_cdr reads the fields of the message type off the payload, in
\* order, and raises when the payload is too short for them
FieldCount(msgtype) == IF msgtype = "sensor_msgs/msg/Imu" THEN 3 ELSE 2
CanDeserialize(rawdata, msgtype) == Len(rawdata) >= FieldCount(msgtype)
deserialize_cdr(rawdata, msgtype) ==
    IF msgtype = "sensor_msgs/msg/Imu"
    THEN [orientation |-> rawdata[1],
          angular_velocity |-> rawdata[2],
          linear_acceleration |-> rawdata[3]]
    ELSE [pose |-> rawdata[1], twist |-> rawdata[2]]

ImuRecord(timestamp, msg) ==
    [timestamp |-> timestamp,
     orientation |-> msg.orientation,
     angular_velocity |-> msg.angular_velocity,
     linear_acceleration |-> msg.linear_acceleration]

OdomRecord(timestamp, msg) ==
    [timestamp |-> timestamp,
     pose |-> msg.pose,
     twist |-> msg.twist]

\* the loop body: does this message raise, and what it appends
Raises(m) ==
    m.topic \in RecognizedTopics /\ ~CanDeserialize(m.rawdata, MsgType(m.topic))

ExtractPrepend(data, m) ==
    IF m.topic = ImuTopic
    THEN [data EXCEPT ![ImuTopic] =
            <<ImuRecord(m.timestamp, deserialize_cdr(m.rawdata, MsgType(m.topic)))>> \o @]
    ELSE IF m.topic = OdomTopic
    THEN [data EXCEPT ![OdomTopic] =
            <<OdomRecord(m.timestamp, deserialize_cdr(m.rawdata, MsgType(m.topic)))>> \o @]
    ELSE data
Extract(data, m) ==
    IF m.topic = ImuTopic
    THEN [data EXCEPT ![ImuTopic] =
            Append(@, ImuRecord(m.timestamp, deserialize_cdr(m.rawdata, MsgType(m.topic))))]
    ELSE IF m.topic = OdomTopic
    THEN [data EXCEPT ![OdomTopic] =
            Append(@, OdomRecord(m.timestamp, deserialize_cdr(m.rawdata, MsgType(m.topic))))]
    ELSE data

\* parse_ros2_bag's return values
Pending == [kind |-> "pending"]
None == [kind |-> "None"]
Dict(data) == [kind |-> "dict", data |-> data]

\* the except clause: "return None"
ExceptResultPartial(data) == Dict(data)
ExceptResult(data) == None

\* Python truthiness of the return value: None is false, a dict is true
\* when it has a key
Truthy(r) == r.kind = "dict" /\ DOMAIN r.data # {}

----------------------------------------------------------------------------
(* DoraBagOperator.on_event                                                *)

EventTypes == {"INPUT", "TIMER_TICK", "STOP", "OTHER"}
EmptyMetadata == "{}"

ImuKeys == <<"timestamp", "orientation", "angular_velocity", "linear_acceleration">>
OdomKeys == <<"timestamp", "pose", "twist">>
\* json.dumps of a record: its key/value pairs in insertion order
JsonDumps(rec) ==
    LET keys == IF "pose" \in DOMAIN rec THEN OdomKeys ELSE ImuKeys
    IN  [i \in 1..Len(keys) |-> <<keys[i], rec[keys[i]]>>]
Encode(text) == [bytes |-> text]

GatePassesStrict(current_time, last, frequency) ==
    (current_time - last) * frequency > UnitsPerSecond
GatePasses(current_time, last, frequency) ==
    (current_time - last) * frequency >= UnitsPerSecond

HasNext(index, records) == index < Len(records)

NextIndexTwo(index) == index + 2
NextIndex(index) == index + 1

FinishedEither(ii, oi, data) ==
    ii >= Len(data[ImuTopic]) \/ oi >= Len(data[OdomTopic])
Finished(ii, oi, data) ==
    ii >= Len(data[ImuTopic]) /\ oi >= Len(data[OdomTopic])

ReturnStatusStopOnStop(event_type, gate, finished) ==
    IF event_type = "STOP" \/ (event_type = "TIMER_TICK" /\ gate /\ finished)
    THEN "STOP" ELSE "CONTINUE"
ReturnStatusIgnoreFinished(event_type, gate, finished) ==
    IF event_type = "TIMER_TICK" /\ gate THEN "STOP" ELSE "CONTINUE"
ReturnStatus(event_type, gate, finished) ==
    IF event_type = "TIMER_TICK" /\ gate /\ finished THEN "STOP" ELSE "CONTINUE"

PrintedLine(event_type, gate, finished) ==
    IF event_type = "TIMER_TICK" /\ gate /\ finished
        THEN "Finished sending all IMU and Odom data."
    ELSE IF event_type = "STOP" THEN "received stop"
    ELSE IF event_type \notin {"INPUT", "TIMER_TICK"} THEN "received unexpected event"
    ELSE ""

SendOutputUnencoded(output_id, record, metadata) ==
    <<output_id, JsonDumps(record), metadata>>
SendOutput(output_id, record, metadata) ==
    <<output_id, Encode(JsonDumps(record)), metadata>>

on_event(event_type, metadata, current_time) ==
    LET gate == event_type = "TIMER_TICK"
                 /\ GatePasses(current_time, last_send_time, send_frequency)
        sendImu == gate /\ HasNext(imu_index, all_data[ImuTopic])
        sendOdom == gate /\ HasNext(odom_index, all_data[OdomTopic])
        imuCalls == IF sendImu
                    THEN <<SendOutput("imu_json", all_data[ImuTopic][imu_index + 1], metadata)>>
                    ELSE <<>>
        odomCalls == IF sendOdom
                     THEN <<SendOutput("odom_json", all_data[OdomTopic][odom_index + 1], metadata)>>
                     ELSE <<>>
        ii == IF sendImu THEN NextIndex(imu_index) ELSE imu_index
        oi == IF sendOdom THEN NextIndex(odom_index) ELSE odom_index
        finished == Finished(ii, oi, all_data)
    IN  /\ sent' = sent \o imuCalls \o odomCalls
        /\ imu_index' = ii
        /\ odom_index' = oi
        /\ last_send_time' = IF gate THEN current_time ELSE last_send_time
        /\ status' = ReturnStatus(event_type, gate, finished)
        /\ printed' = PrintedLine(event_type, gate, finished)
        /\ ev_type' = event_type
        /\ passed' = gate
        /\ gated' = IF gate THEN gated + 1 ELSE gated
        /\ stop_seen' = (stop_seen \/ event_type = "STOP")
        /\ now' = current_time
        /\ UNCHANGED <<all_data, send_frequency>>

----------------------------------------------------------------------------
(* The program: main() runs parse_ros2_bag, then the simulation loop.      *)

Init ==
    /\ fs \in FileSystems
    /\ arg_path \in ArgPaths
    /\ arg_frequency \in Frequencies
    /\ pc = "parse"
    /\ bag_path = arg_path
    /\ warned = FALSE
    /\ error = ""
    /\ read = <<>>
    /\ extracted_data = EmptyData
    /\ result = Pending
    /\ all_data = EmptyData
    /\ imu_index = 0
    /\ odom_index = 0
    /\ last_send_time = 0
    /\ send_frequency = DefaultFrequency
    /\ now = 0
    /\ sent = <<>>
    /\ status = "NONE"
    /\ printed = ""
    /\ ev_type = "NONE"
    /\ passed = FALSE
    /\ gated = 0
    /\ stop_seen = FALSE

\* parse_ros2_bag, the locator: an error line returns None
LocateBag ==
    /\ pc = "parse"
    /\ LET o == Locate(arg_path)
       IN  /\ bag_path' = o.bag_path
           /\ warned' = o.warned
           /\ error' = o.error
           /\ IF o.error = ""
              THEN pc' = "open" /\ result' = result
              ELSE pc' = "returned" /\ result' = None
    /\ UNCHANGED <<argVars, read, extracted_data, now, operatorVars>>

\* Reader(bag_path) opens and the summary is printed
OpenReaderOk ==
    /\ pc = "open"
    /\ pc' = "scan"
    /\ extracted_data' = EmptyData
    /\ UNCHANGED <<argVars, locatorVars, read, result, now, operatorVars>>

\* the reader or the summary raises: the except clause returns None
OpenReaderFails ==
    /\ pc = "open"
    /\ pc' = "returned"
    /\ error' = "ParseError"
    /\ result' = ExceptResult(extracted_data)
    /\ UNCHANGED <<argVars, bag_path, warned, read, extracted_data, now, operatorVars>>

\* one iteration of the loop over reader.messages()
ReadMessage ==
    /\ pc = "scan"
    /\ Len(read) < MaxMsgs
    /\ \E m \in Messages :
        /\ read' = Append(read, m)
        /\ IF Raises(m)
           THEN /\ pc' = "returned"
                /\ error' = "ParseError"
                /\ result' = ExceptResult(extracted_data)
                /\ UNCHANGED extracted_data
           ELSE /\ extracted_data' = Extract(extracted_data, m)
                /\ UNCHANGED <<pc, error, result>>
    /\ UNCHANGED <<argVars, bag_path, warned, now, operatorVars>>

\* reader.messages() itself raises while iterating (a storage error after
\* any number of messages): the except clause returns None
IterationFails ==
    /\ pc = "scan"
    /\ pc' = "returned"
    /\ error' = "ParseError"
    /\ result' = ExceptResult(extracted_data)
    /\ UNCHANGED <<argVars, bag_path, warned, read, extracted_data, now, operatorVars>>

\* the iteration ends: the counts are printed and extracted_data returned
ScanEnd ==
    /\ pc = "scan"
    /\ pc' = "returned"
    /\ result' = Dict(extracted_data)
    /\ UNCHANGED <<argVars, locatorVars, read, extracted_data, now, operatorVars>>

\* main: "if extracted_data:"
StartsEmitterAlways(r) == TRUE
StartsEmitter(r) == Truthy(r)

\* main constructs the operator and hands it the data and the frequency
Construct ==
    /\ pc = "returned"
    /\ StartsEmitter(result)
    /\ pc' = "loop"
    /\ all_data' = IF result.kind = "dict" THEN result.data ELSE EmptyData
    /\ send_frequency' = arg_frequency
    /\ imu_index' = 0
    /\ odom_index' = 0
    /\ last_send_time' = now
    /\ UNCHANGED <<argVars, locatorVars, read, extracted_data, result, now, sent,
                   status, printed, ev_type, passed, gated, stop_seen>>

\* main returns without an emitter
Skip ==
    /\ pc = "returned"
    /\ ~StartsEmitter(result)
    /\ pc' = "done"
    /\ UNCHANGED <<argVars, locatorVars, read, extracted_data, result, now, operatorVars>>

\* the loop condition: one TIMER_TICK, the first right after construction
\* and each later one as the sleep returns (the time until on_event reads
\* the clock counts as the sleep being late)
MainTick ==
    /\ pc = "loop"
    /\ on_event("TIMER_TICK", EmptyMetadata, now)
    /\ pc' = IF status' = "CONTINUE" THEN "sleep" ELSE "done"
    /\ UNCHANGED <<argVars, locatorVars, read, extracted_data, result>>

\* time.sleep(1.0 / args.frequency) sleeps at least that long
SleepDurations(frequency) ==
    {d \in 1..MaxStep : \E j \in Jitters :
        /\ (d - j) * frequency >= UnitsPerSecond
        /\ (d - j - 1) * frequency < UnitsPerSecond}

Sleep ==
    /\ pc = "sleep"
    /\ \E d \in SleepDurations(arg_frequency) : now' = now + d
    /\ pc' = "loop"
    /\ UNCHANGED <<argVars, locatorVars, read, extracted_data, result, operatorVars>>

Next ==
    \/ LocateBag
    \/ OpenReaderOk
    \/ OpenReaderFails
    \/ ReadMessage
    \/ IterationFails
    \/ ScanEnd
    \/ Construct
    \/ Skip
    \/ MainTick
    \/ Sleep

Spec == Init /\ [][Next]_vars

\* the program is sequential: it takes its next step whenever it has one
FairSpec == Spec /\ WF_vars(Next)

----------------------------------------------------------------------------
(* The operator under a host runtime: constructed as main does, over any   *)
(* extracted data, and given events of any type at any time.               *)

GoodBagFs ==
    [p \in KnownPaths |-> IF p = PathBag THEN "dir"
                          ELSE IF p = PathBare THEN "none" ELSE "file"]

\* a bag of n IMU messages followed by m odometry messages
BagOf(n, m) ==
    [i \in 1..(n + m) |->
        IF i <= n
        THEN [topic |-> ImuTopic, timestamp |-> i, rawdata |-> GoodPayload]
        ELSE [topic |-> OdomTopic, timestamp |-> i - n, rawdata |-> GoodPayload]]

\* what the extraction loop builds from messages that all deserialize
RECURSIVE ExtractAll(_)
ExtractAll(msgs) ==
    IF msgs = <<>> THEN EmptyData
    ELSE Extract(ExtractAll(SubSeq(msgs, 1, Len(msgs) - 1)), msgs[Len(msgs)])

InitOp ==
    /\ fs = GoodBagFs
    /\ arg_path = PathBag
    /\ arg_frequency \in Frequencies
    /\ pc = "host"
    /\ bag_path = arg_path
    /\ warned = FALSE
    /\ error = ""
    /\ \E n \in 0..MaxLen, m \in 0..MaxLen :
        /\ read = BagOf(n, m)
        /\ extracted_data = ExtractAll(read)
        /\ result = Dict(extracted_data)
        /\ all_data = extracted_data
    /\ imu_index = 0
    /\ odom_index = 0
    /\ last_send_time = 0
    /\ send_frequency = arg_frequency
    /\ now = 0
    /\ sent = <<>>
    /\ status = "NONE"
    /\ printed = ""
    /\ ev_type = "NONE"
    /\ passed = FALSE
    /\ gated = 0
    /\ stop_seen = FALSE

HostEvent ==
    /\ pc = "host"
    /\ \E t \in EventTypes, d \in 0..MaxStep :
        /\ now + d <= MaxTime
        /\ on_event(t, EmptyMetadata, now + d)
    /\ UNCHANGED <<argVars, pc, locatorVars, read, extracted_data, result>>

NextOp == HostEvent

OpSpec == InitOp /\ [][NextOp]_vars

----------------------------------------------------------------------------
(* What the sink received, by output identifier                            *)

SentOf(output_id) == SelectSeq(sent, LAMBDA c : c[1] = output_id)
PayloadsOf(output_id) ==
    [i \in 1..Len(SentOf(output_id)) |-> SentOf(output_id)[i][2]]
\* the payloads of the first k records of a topic
FirstPayloads(records, k) == [i \in 1..k |-> Encode(JsonDumps(records[i]))]
Min(a, b) == IF a <= b THEN a ELSE b
ImuLen == Len(all_data[ImuTopic])
OdomLen == Len(all_data[OdomTopic])
GatedTick == ev_type = "TIMER_TICK" /\ passed

----------------------------------------------------------------------------
(* C1: the emitter scenario                                                *)

Scenario ==
    /\ pc = "host"
    /\ send_frequency = 10
    /\ ImuLen = 3
    /\ OdomLen = 1

ScenarioEmissions ==
    /\ PayloadsOf("imu_json") = FirstPayloads(all_data[ImuTopic], Min(gated, 3))
    /\ PayloadsOf("odom_json") = FirstPayloads(all_data[OdomTopic], Min(gated, 1))
    /\ Len(sent) = Min(gated, 3) + Min(gated, 1)

\* C1 as stated: in the scenario (frequency 10, 3 IMU records, 1 odometry
\* record) the ticks that pass the rate gate emit the records in index
\* order, 3 imu_json and 1 odom_json in all, and on_event returns STOP on
\* the 4th tick that passes the gate, not earlier and not later.
C1_StopOnFourthCycle ==
    Scenario =>
        /\ ScenarioEmissions
        /\ (status = "STOP" => gated >= 4)
        /\ (GatedTick /\ gated >= 4 => status = "STOP")

\* C1 amended: in the scenario the ticks that pass the rate gate emit the
\* records in index order, 3 imu_json and 1 odom_json in all, and on_event
\* returns STOP on the 3rd tick that passes the gate (the one that emits the
\* last IMU record), not earlier; every later gated tick returns STOP too.
C1_StopOnThirdCycle ==
    Scenario =>
        /\ ScenarioEmissions
        /\ (status = "STOP" => gated >= 3)
        /\ (GatedTick /\ gated >= 3 => status = "STOP")

C1_Witness ==
    /\ Scenario
    /\ GatedTick
    /\ gated = 3
    /\ status = "STOP"
    /\ Len(SentOf("imu_json")) = 3
    /\ Len(SentOf("odom_json")) = 1

----------------------------------------------------------------------------
(* C2: the STOP event                                                      *)

\* C2 as stated: a STOP event is logged and takes the emitter to the
\* terminal STOPPED state: once a STOP event has been delivered, no later
\* event emits anything or moves an index, even if records remain unsent.
C2_StopEventIsTerminal ==
    [][/\ (ev_type' = "STOP" => printed' = "received stop")
       /\ (stop_seen =>
            sent' = sent /\ imu_index' = imu_index /\ odom_index' = odom_index)]_vars

\* C2 amended: a STOP event is logged ("received stop") and emits nothing
\* itself: the sink is not called, the indices and last_send_time are left
\* unchanged, and on_event returns CONTINUE (the emitter does not become
\* STOPPED, so a later gated tick still emits).
C2_StopEventIsLoggedOnly ==
    [][ev_type' = "STOP" =>
        /\ printed' = "received stop"
        /\ status' = "CONTINUE"
        /\ sent' = sent
        /\ imu_index' = imu_index
        /\ odom_index' = odom_index
        /\ last_send_time' = last_send_time]_vars

C2_Witness ==
    /\ ev_type = "STOP"
    /\ printed = "received stop"
    /\ status = "CONTINUE"
    /\ gated >= 1
    /\ imu_index < ImuLen
    /\ (now - last_send_time) * send_frequency >= UnitsPerSecond

----------------------------------------------------------------------------
(* C3: STOP is returned only when both sequences are exhausted             *)

\* C3: whenever on_event has returned STOP both indices have reached the
\* end of their sequences, and whenever a record of either topic is still
\* unsent after an event, that event returned CONTINUE.
C3_StopOnlyWhenExhausted ==
    /\ (status = "STOP" => imu_index >= ImuLen /\ odom_index >= OdomLen)
    /\ (ev_type # "NONE" /\ (imu_index < ImuLen \/ odom_index < OdomLen)
            => status = "CONTINUE")

C3_Witness ==
    /\ GatedTick
    /\ status = "CONTINUE"
    /\ imu_index = ImuLen
    /\ ImuLen >= 1
    /\ odom_index < OdomLen

----------------------------------------------------------------------------
(* C4: the rate gate                                                       *)

\* C4: a TIMER_TICK less than 1/send_frequency seconds after last_send_time
\* calls no sink, leaves both indices and last_send_time unchanged and
\* returns CONTINUE; a TIMER_TICK at least that late emits the next unsent
\* record of each topic that has one, advances that topic's index by one,
\* and sets last_send_time to the tick's time.
C4_RateGate ==
    [][ev_type' = "TIMER_TICK" =>
        IF (now' - last_send_time) * send_frequency < UnitsPerSecond
        THEN /\ sent' = sent
             /\ imu_index' = imu_index
             /\ odom_index' = odom_index
             /\ last_send_time' = last_send_time
             /\ status' = "CONTINUE"
        ELSE /\ last_send_time' = now'
             /\ imu_index' = IF imu_index < ImuLen THEN imu_index + 1 ELSE imu_index
             /\ odom_index' = IF odom_index < OdomLen THEN odom_index + 1 ELSE odom_index
             /\ sent' = sent
                  \o (IF imu_index < ImuLen
                      THEN << <<"imu_json",
                                Encode(JsonDumps(all_data[ImuTopic][imu_index + 1])),
                                EmptyMetadata>> >>
                      ELSE <<>>)
                  \o (IF odom_index < OdomLen
                      THEN << <<"odom_json",
                                Encode(JsonDumps(all_data[OdomTopic][odom_index + 1])),
                                EmptyMetadata>> >>
                      ELSE <<>>)]_vars

\* after an emission, a tick that came too early was coalesced
C4_Witness ==
    /\ ev_type = "TIMER_TICK"
    /\ ~passed
    /\ status = "CONTINUE"
    /\ gated >= 1
    /\ Len(sent) >= 1
    /\ now > last_send_time
    /\ imu_index < ImuLen

----------------------------------------------------------------------------
(* C5: indices and emitted records                                         *)

IndexInvariant ==
    /\ imu_index \in 0..ImuLen
    /\ odom_index \in 0..OdomLen
    /\ PayloadsOf("imu_json") = FirstPayloads(all_data[ImuTopic], imu_index)
    /\ PayloadsOf("odom_json") = FirstPayloads(all_data[OdomTopic], odom_index)
    /\ Len(sent) = imu_index + odom_index

\* C5: each index stays within 0..length, never decreases, and advances by
\* at most one per event; the records the sink received for a topic are
\* exactly the first `index` records of that topic, in order; the emitter
\* never modifies all_data.
C5_IndicesAndEmissions ==
    /\ []IndexInvariant
    /\ [][/\ imu_index' \in {imu_index, imu_index + 1}
          /\ odom_index' \in {odom_index, odom_index + 1}
          /\ all_data' = all_data]_vars

C5_Witness ==
    /\ pc = "host"
    /\ stop_seen
    /\ ev_type = "OTHER"
    /\ imu_index = 2
    /\ odom_index = 1
    /\ OdomLen = 1
    /\ ImuLen = 3

----------------------------------------------------------------------------
(* C6: a message that fails to deserialize                                 *)

FailedAt(i) == i \in 1..Len(read) /\ Raises(read[i])
SomeFailed == \E i \in 1..Len(read) : FailedAt(i)
\* the records of a topic among the messages read that deserialize
ExpectedImu(msgs) ==
    LET s == SelectSeq(msgs, LAMBDA m : m.topic = "/Imu" /\ Len(m.rawdata) >= 3)
    IN  [i \in 1..Len(s) |->
            [timestamp |-> s[i].timestamp,
             orientation |-> s[i].rawdata[1],
             angular_velocity |-> s[i].rawdata[2],
             linear_acceleration |-> s[i].rawdata[3]]]
ExpectedOdom(msgs) ==
    LET s == SelectSeq(msgs, LAMBDA m : m.topic = "/odom" /\ Len(m.rawdata) >= 2)
    IN  [i \in 1..Len(s) |->
            [timestamp |-> s[i].timestamp,
             pose |-> s[i].rawdata[1],
             twist |-> s[i].rawdata[2]]]

\* C6 as stated: a recognized message that fails to deserialize is skipped:
\* the scan goes on, and parse_ros2_bag returns the two sequences holding
\* every other recognized message.
C6_FailureIsSkipped ==
    SomeFailed =>
        \/ pc = "scan"
        \/ /\ result.kind = "dict"
           /\ result.data["/Imu"] = ExpectedImu(read)
           /\ result.data["/odom"] = ExpectedOdom(read)

\* C6 amended: a recognized message that fails to deserialize aborts the
\* scan: it is the last message iterated, the failure is reported by the
\* except clause, and parse_ros2_bag returns None instead of the sequences,
\* so that nothing is emitted.
C6_FailureAbortsScan ==
    SomeFailed =>
        /\ FailedAt(Len(read))
        /\ \A i \in 1..(Len(read) - 1) : ~FailedAt(i)
        /\ pc \in {"returned", "done"}
        /\ error = "ParseError"
        /\ result = None
        /\ sent = <<>>

C6_Witness ==
    /\ SomeFailed
    /\ Len(read) >= 2
    /\ Len(read) < MaxMsgs
    /\ Len(extracted_data["/Imu"]) + Len(extracted_data["/odom"]) >= 1
    /\ pc = "done"
    /\ result = None

----------------------------------------------------------------------------
(* C7: the bag locator                                                     *)

\* the locator's error line: a later reader failure overwrites nothing of it
LocatorError == IF error = "ParseError" THEN "" ELSE error
HasDataFile(p) == \E q \in DOMAIN fs :
    Len(q) = Len(p) + 1 /\ SubSeq(q, 1, Len(p)) = p /\ fs[q] # "none" /\ q[Len(q)][2] = ".db3"

\* C7: once the locator has run, exactly the outcome the input path calls
\* for holds: NotFound for a path that does not exist; for an existing file
\* ending in '.db3' (a bare file name included) its parent directory as the
\* bag path, with the warning, and the reader is reached; for a directory
\* itself if an immediate entry ends in '.db3' and NoDataFile otherwise;
\* InvalidPath for any other path.
C7_LocatorOutcomes ==
    pc # "parse" =>
        IF fs[arg_path] = "none" THEN LocatorError = "NotFound"
        ELSE IF fs[arg_path] = "file" /\ arg_path[Len(arg_path)][2] = ".db3"
        THEN /\ LocatorError = ""
             /\ warned
             /\ bag_path = SubSeq(arg_path, 1, Len(arg_path) - 1)
        ELSE IF fs[arg_path] = "dir"
        THEN IF HasDataFile(arg_path)
             THEN LocatorError = "" /\ ~warned /\ bag_path = arg_path
             ELSE LocatorError = "NoDataFile"
        ELSE LocatorError = "InvalidPath"

----------------------------------------------------------------------------
(* C8: the extractor                                                       *)

\* the reader raised, at open or while iterating, not a payload
ReaderFailed == error = "ParseError" /\ ~SomeFailed

\* C8: while every message read deserializes, the '/Imu' sequence is the
\* reshaped subsequence of the '/Imu' messages read and the '/odom' sequence
\* that of the '/odom' messages, in storage order and with their timestamps;
\* other topics add nothing and raise nothing; unless the reader itself
\* fails, the value returned at the end of the scan is these two sequences.
C8_ExtractorSubsequences ==
    ~SomeFailed =>
        /\ (pc = "scan" \/ result.kind = "dict" =>
                /\ extracted_data["/Imu"] = ExpectedImu(read)
                /\ extracted_data["/odom"] = ExpectedOdom(read))
        /\ (result.kind = "dict" => result.data = extracted_data)
        /\ (Len(read) > 0 /\ ~ReaderFailed =>
                /\ error = ""
                /\ (pc # "scan" => result.kind = "dict"))

\* no IMU message, odometry messages with different timestamps, another topic
C8_Witness ==
    /\ pc = "returned"
    /\ result.kind = "dict"
    /\ result.data["/Imu"] = <<>>
    /\ Len(result.data["/odom"]) = MaxMsgs - 1
    /\ result.data["/odom"][1].timestamp = 2
    /\ result.data["/odom"][MaxMsgs - 1].timestamp = 1
    /\ \E i \in 1..Len(read) : read[i].topic = "/scan"

----------------------------------------------------------------------------
(* C9: failures are handled locally                                        *)

EmitterStarted == pc \in {"loop", "sleep"} \/ ev_type # "NONE"

\* C9: every failure (path not found, no data file, invalid path, an
\* exception while opening or reading the bag) makes parse_ros2_bag return
\* None, and main then never constructs or ticks the emitter, so nothing is
\* emitted; a successful extraction, empty sequences included, always
\* starts the emitter loop.
C9_FailuresHandledLocally ==
    /\ (error # "" =>
            /\ result = None
            /\ pc \in {"returned", "done"}
            /\ ~EmitterStarted
            /\ sent = <<>>)
    /\ (result = None => error # "")
    /\ (result.kind = "dict" =>
            /\ error = ""
            /\ pc \in {"returned", "loop", "sleep", "done"}
            /\ (pc = "done" => EmitterStarted /\ gated >= 1))

C9_Witness ==
    /\ pc = "done"
    /\ error = "ParseError"
    /\ Len(read) = 0
    /\ warned
    /\ result = None
    /\ ~EmitterStarted

----------------------------------------------------------------------------
(* C10: termination                                                        *)

StopTick == Max(1, Max(ImuLen, OdomLen))

\* C10: once main has constructed the emitter (send_frequency > 0, only
\* TIMER_TICK events), the loop terminates: on_event eventually returns
\* STOP, and it returns STOP on exactly the max(1, max(n, m))-th tick that
\* passes the rate gate, one gated tick without emission when both
\* sequences are empty.
C10_Termination ==
    /\ (pc = "loop") ~> (pc = "done" /\ status = "STOP")
    /\ [](pc \in {"loop", "sleep"} \/ (pc = "done" /\ result.kind = "dict") =>
            /\ send_frequency > 0
            /\ gated <= StopTick
            /\ (status = "STOP" <=> (gated = StopTick))
            /\ (pc = "done" <=> status = "STOP")
            /\ (ImuLen = 0 /\ OdomLen = 0 /\ pc = "done" => sent = <<>>))

C10_Witness ==
    /\ pc = "done"
    /\ status = "STOP"
    /\ ImuLen = 1
    /\ OdomLen = 2
    /\ gated = 2
    /\ Len(sent) = 3
    /\ Len(read) = 3

====
